---- MODULE Spec2Model ----
(***************************************************************************)
(* Model of js/game.js: the 24-point card page.  On window load, and on    *)
(* every click of the new-game button, newGame() builds the 52-card deck,  *)
(* shuffles it with Array.prototype.sort under a random comparator, and    *)
(* writes the image paths of the first four cards into the img elements    *)
(* card1..card4.                                                           *)
(*                                                                         *)
(* The file holds two versions of the script.  They differ in the base     *)
(* directory of the image paths, and the second one also probes four image *)
(* paths at start-up.  A page runs one of them: `theme` says which.        *)
(***************************************************************************)
EXTENDS Integers, Sequences, FiniteSets, TLC

\* How many cards of the constructed deck a round shuffles in the model (the
\* program shuffles all 52).
DeckCap == 5

\* The count of newGame calls kept in `rounds` stops at this number.
MaxRounds == 2

-----------------------------------------------------------------------------
(* Program constants *)

CARD_VALUES == <<"A", "2", "3", "4", "5", "6", "7", "8", "9", "10", "J", "Q", "K">>

\* Object.entries(CARD_SUITS): the [suitName, suitCode] pairs in insertion order.
CARD_SUITS ==
  << <<"hearts", "H">>, <<"diamonds", "D">>, <<"clubs", "C">>, <<"spades", "S">> >>

\* deck.slice(0, 4)
SliceEnd == 4

Themes == {"default", "classic"}

\* `assets/pictures/` in the first version, `assets/pictures/classic/` in
\* the second.
BasePath(t) == IF t = "default" THEN "assets/pictures/" ELSE "assets/pictures/classic/"

\* The page: img elements card1..card4 (named by their number) and the
\* new-game button.
CardElems == {1, 2, 3, 4}
HasButton == TRUE

\* ['AC','AD','AH','AS']
ProbeCodes == {"AC", "AD", "AH", "AS"}

-----------------------------------------------------------------------------
(* Deck construction *)

\* Variant: the suit code written before the value.
FileNameSuitFirst(value, suitCode) == suitCode \o value \o ".png"

\* `${value}${suitCode}.png`
FileName(value, suitCode) == value \o suitCode \o ".png"

\* ({ value, suitCode, fileName })
MakeCard(value, entry) ==
  [value |-> value, suitCode |-> entry[2], fileName |-> FileName(value, entry[2])]

\* Object.entries(CARD_SUITS).map(...)
SuitsMap(value) == [k \in 1..Len(CARD_SUITS) |-> MakeCard(value, CARD_SUITS[k])]

RECURSIVE Flatten(_)
Flatten(ss) == IF ss = <<>> THEN <<>> ELSE Head(ss) \o Flatten(Tail(ss))

\* CARD_VALUES.flatMap(value => ...)
BuildDeck == Flatten([v \in 1..Len(CARD_VALUES) |-> SuitsMap(CARD_VALUES[v])])


-----------------------------------------------------------------------------
(* Array.prototype.sort under the comparator () => Math.random() - 0.5.    *)
(* The comparator ignores its arguments, so each call is a free choice of  *)
(* sign.  The sort is the engine's algorithm for arrays shorter than 64:   *)
(* find the leading run (reversing it when descending), then binary        *)
(* insertion of the remaining elements.  Indices are 0-based as in the     *)
(* engine; the operators return the set of arrays the calls can produce.   *)

\* Variant: a comparator that never returns a negative number.
CmpNeverNegative == {0, 1}

\* Sign of Math.random() - 0.5, Math.random() in [0, 1).
CmpOutcomes == {-1, 0, 1}

RECURSIVE RunLengths(_, _, _, _)
RunLengths(idx, high, isDescending, runLength) ==
  IF idx >= high
    THEN {runLength}
    ELSE UNION { IF (isDescending /\ order >= 0) \/ (~isDescending /\ order < 0)
                   THEN {runLength}
                   ELSE RunLengths(idx + 1, high, isDescending, runLength + 1)
                 : order \in CmpOutcomes }

\* Variant: the reversal reads one place too far to the left.
ReverseRangeOffByOne(a, from, to) ==
  [k \in 1..Len(a) |->
     IF from < k /\ k <= to
       THEN a[IF from + to - k < 1 THEN 1 ELSE from + to - k]
       ELSE a[k]]

\* Reverse a[from .. to-1].
ReverseRange(a, from, to) ==
  [k \in 1..Len(a) |-> IF from < k /\ k <= to THEN a[from + to + 1 - k] ELSE a[k]]

CountAndMakeRun(a, low, high) ==
  IF low + 1 = high
    THEN {[array |-> a, run |-> 1]}
    ELSE UNION { { [array |-> IF order < 0 THEN ReverseRange(a, low, low + r) ELSE a,
                    run |-> r]
                   : r \in RunLengths(low + 2, high, order < 0, 2) }
                 : order \in CmpOutcomes }

\* Where the binary search over a[left .. right-1] can end.
RECURSIVE InsertionPoints(_, _)
InsertionPoints(left, right) ==
  IF left >= right
    THEN {left}
    ELSE LET mid == left + ((right - left) \div 2)
         IN  UNION { IF order < 0 THEN InsertionPoints(left, mid)
                                  ELSE InsertionPoints(mid + 1, right)
                     : order \in CmpOutcomes }

\* Variant: the pivot is written at its place without shifting the others.
InsertPivotOverwrite(a, start, left) == [a EXCEPT ![left + 1] = a[start + 1]]

\* Shift a[left .. start-1] one place up and put the pivot a[start] at left.
InsertPivot(a, start, left) ==
  [k \in 1..Len(a) |->
     IF k = left + 1 THEN a[start + 1]
     ELSE IF left + 1 < k /\ k <= start + 1 THEN a[k - 1]
     ELSE a[k]]

RECURSIVE BinaryInsertionSort(_, _, _, _)
BinaryInsertionSort(arrays, low, start, high) ==
  IF start >= high
    THEN arrays
    ELSE BinaryInsertionSort(
           { InsertPivot(a, start, left) :
               a \in arrays, left \in InsertionPoints(low, start) },
           low, start + 1, high)

ArraySort(a) ==
  IF Len(a) < 2
    THEN {a}
    ELSE UNION { BinaryInsertionSort({r.array}, 0, r.run, Len(a))
                 : r \in CountAndMakeRun(a, 0, Len(a)) }

-----------------------------------------------------------------------------
(* State *)

VARIABLES
  theme,      \* which version of the script the page runs
  loaded,     \* window.onload has fired
  listeners,  \* click listeners of the new-game button
  deck,       \* the shuffled deck of the latest newGame call (<<>> before the first)
  src,        \* src of the img elements card1..card4 ("": never assigned)
  err,        \* how the latest handler ended: "none" or "TypeError"
  status,     \* load status of the img elements card1..card4
  probe,      \* load status of the probe images of the second version
  rounds      \* history: the number of newGame calls so far, up to MaxRounds

vars == <<theme, loaded, listeners, deck, src, err, status, probe, rounds>>

\* Variant: the deck is kept between rounds and the dealt cards leave it.
LeftoverDeck ==
  IF deck = <<>>
    THEN SubSeq(BuildDeck, 1, DeckCap)
    ELSE SubSeq(deck, SliceEnd + 1, Len(deck))

\* const deck = CARD_VALUES.flatMap(...): built anew in every call, here cut
\* to the model's bound.
FreshDeck == SubSeq(BuildDeck, 1, DeckCap)

\* ... .sort(() => Math.random() - 0.5)
ShuffledDecks == ArraySort(FreshDeck)

\* Variant: `card${i}`.
SlotIdFromZero(i) == i

\* `card${i+1}` for the forEach index i
SlotId(i) == i + 1

\* Variant: deck.slice(1, 5).
SliceFromOne(d) == SubSeq(d, 2, IF Len(d) < SliceEnd + 1 THEN Len(d) ELSE SliceEnd + 1)

\* deck.slice(0, 4)
Slice(d) == SubSeq(d, 1, IF Len(d) < SliceEnd THEN Len(d) ELSE SliceEnd)

\* `assets/pictures/${card.fileName}` (or .../classic/...)
AssetPath(t, card) == BasePath(t) \o card.fileName

\* deck.slice(0, 4).forEach((card, i) => { getElementById(`card${i+1}`).src = ... })
\* Which iterations run and which element each one writes depends on neither
\* the cards nor the state, so that part of the loop is computed once.

\* The length of the slice (every deck of a round has the same length).
SliceLen == Len(Slice(FreshDeck))

\* The number of iterations that run to their end: getElementById returns
\* null for a missing element and the assignment to its .src then throws,
\* which ends the loop and the handler.
Completed ==
  CHOOSE k \in 0..SliceLen :
    /\ \A i \in 0..(k - 1) : SlotId(i) \in CardElems
    /\ k = SliceLen \/ SlotId(k) \notin CardElems

\* Variant: after the first round only card1 is written again.
AssignedStale == {SlotId(0)} \cup {j \in CardElems : src[j] = ""}

\* The elements the loop writes.
Assigned == {SlotId(i) : i \in 0..(Completed - 1)}

\* The iteration whose write to element j is the last one.
IterOf ==
  [j \in Assigned |->
     CHOOSE i \in 0..(Completed - 1) :
       /\ SlotId(i) = j
       /\ \A k \in 0..(Completed - 1) : SlotId(k) = j => k <= i]

\* How the loop ends.
Thrown == IF Completed < SliceLen THEN "TypeError" ELSE "none"

\* The body of newGame() once the sort has produced d.
newGame(d) ==
  /\ deck' = d
  /\ src' = [j \in CardElems |->
               IF j \in Assigned THEN AssetPath(theme, Slice(d)[IterOf[j] + 1])
                                 ELSE src[j]]
  /\ status' = [j \in CardElems |-> IF j \in Assigned THEN "loading" ELSE status[j]]
  /\ err' = Thrown
  /\ rounds' = IF rounds < MaxRounds THEN rounds + 1 ELSE rounds

\* The page before its load event.  The markup gives card1..card4 no src of
\* their own; the second version creates its four probe images at once.
Init ==
  /\ theme \in Themes
  /\ loaded = FALSE
  /\ listeners = {}
  /\ deck = <<>>
  /\ src = [j \in CardElems |-> ""]
  /\ err = "none"
  /\ status = [j \in CardElems |-> "none"]
  /\ probe = [c \in ProbeCodes |-> IF theme = "classic" THEN "pending" ELSE "absent"]
  /\ rounds = 0

-----------------------------------------------------------------------------
(* Handlers *)

\* Variant: the listener is not registered.
AddNoListener(ls) == ls

\* document.getElementById('new-game-btn').addEventListener('click', newGame)
AddEventListener(ls) == ls \cup {"newGame"}

\* window.onload: register newGame on the button, then run newGame().
onload ==
  /\ ~loaded
  /\ loaded' = TRUE
  /\ IF HasButton
       THEN /\ listeners' = AddEventListener(listeners)
            /\ \E d \in ShuffledDecks : newGame(d)
       ELSE /\ err' = "TypeError"
            /\ UNCHANGED <<listeners, deck, src, status, rounds>>
  /\ UNCHANGED <<theme, probe>>

\* A click on the new-game button runs its listeners.
click ==
  /\ "newGame" \in listeners
  /\ \E d \in ShuffledDecks : newGame(d)
  /\ UNCHANGED <<theme, loaded, listeners, probe>>

\* Variant: an error handler that blanks the slot whose image failed.
SrcClearedOnError(j) == [src EXCEPT ![j] = ""]

\* No error listener is attached to card1..card4 (the script only sets
\* their src), so a failed load runs no code of the page.
SrcAfterError(j) == src

\* The image of slot j finished loading.
ImgLoad(j) ==
  /\ status[j] = "loading"
  /\ status' = [status EXCEPT ![j] = "loaded"]
  /\ UNCHANGED <<theme, loaded, listeners, deck, src, err, probe, rounds>>

\* The image of slot j failed to load.
ImgError(j) ==
  /\ status[j] = "loading"
  /\ status' = [status EXCEPT ![j] = "broken"]
  /\ src' = SrcAfterError(j)
  /\ UNCHANGED <<theme, loaded, listeners, deck, err, probe, rounds>>

\* img.onload of a probe image: console.log(`${code}.png loads OK`)
ProbeLoad(c) ==
  /\ probe[c] = "pending"
  /\ probe' = [probe EXCEPT ![c] = "ok"]
  /\ UNCHANGED <<theme, loaded, listeners, deck, src, err, status, rounds>>

\* img.onerror of a probe image: console.error(`${code}.png FAILED`)
ProbeError(c) ==
  /\ probe[c] = "pending"
  /\ probe' = [probe EXCEPT ![c] = "failed"]
  /\ UNCHANGED <<theme, loaded, listeners, deck, src, err, status, rounds>>

\* The triggers of a round.
Next == onload \/ click

Spec == Init /\ [][Next]_vars

\* The triggers together with the load events of the slot images.
NextImg ==
  \/ onload
  \/ click
  \/ \E j \in CardElems : ImgLoad(j)
  \/ \E j \in CardElems : ImgError(j)

SpecImg == Init /\ [][NextImg]_vars

\* The triggers together with the load events of the probe images.
NextProbe ==
  \/ onload
  \/ click
  \/ \E c \in ProbeCodes : ProbeLoad(c)
  \/ \E c \in ProbeCodes : ProbeError(c)

SpecProbe == Init /\ [][NextProbe]_vars

TypeOK ==
  /\ theme \in Themes
  /\ loaded \in BOOLEAN
  /\ listeners \subseteq {"newGame"}
  /\ err \in {"none", "TypeError"}
  /\ status \in [CardElems -> {"none", "loading", "loaded", "broken"}]
  /\ probe \in [ProbeCodes -> {"absent", "pending", "ok", "failed"}]
  /\ rounds \in 0..MaxRounds
-----------------------------------------------------------------------------
(* Properties *)

\* The cards of the latest round.
Selected == Slice(deck)

Pair(card) == <<card.value, card.suitCode>>

\* "idle": no deck selected, nothing displayed.
Idle == deck = <<>> /\ \A j \in 1..4 : src[j] = ""

\* "round active": 4 cards selected and displayed.
RoundActive == Len(Selected) = 4 /\ \A j \in 1..4 : src[j] # ""

\* The strings matched by ^(A|[2-9]|10|J|Q|K)[HDCS]\.png$ : the pattern is
\* anchored and has no repetition, so its language is the finite product of
\* the alternation, the character class and the literal.
PatternRanks == {"A"} \cup {"2", "3", "4", "5", "6", "7", "8", "9"} \cup {"10", "J", "Q", "K"}
PatternSuits == {"H", "D", "C", "S"}
PatternNames == {r \o c \o ".png" : r \in PatternRanks, c \in PatternSuits}

\* C1: after every call of newGame exactly 4 cards are selected, and no two
\* of them have the same (rank, suit code) pair.
C1_FourDistinctCards ==
  rounds > 0 =>
    /\ Len(Selected) = 4
    /\ \A i, k \in 1..Len(Selected) : i # k => Pair(Selected[i]) # Pair(Selected[k])

\* Two rounds have run and two of the selected cards share their rank.
C1_Witness ==
  /\ rounds = MaxRounds
  /\ \E i, k \in 1..Len(Selected) : i # k /\ Selected[i].value = Selected[k].value

\* C2: after a round, slot card<i> holds the base directory followed by the
\* asset name of the i-th card of the shuffled deck, for all of i = 1..4 and
\* with one base directory for the four.
C2_SlotPaths ==
  rounds > 0 =>
    \E base \in {"assets/pictures/", "assets/pictures/classic/"} :
      \A i \in 1..4 : src[i] = base \o deck[i].fileName

\* A round of the second version put the first card of the deck in slot 4.
C2_Witness ==
  /\ rounds > 0
  /\ src[4] = "assets/pictures/classic/AH.png"
  /\ deck[4] = BuildDeck[1]

\* C3: the asset name of every one of the 52 cards is its rank, then its
\* suit code, then ".png"; cards of one (rank, suit code) pair have one
\* name; and every name assigned to a slot matches the pattern.
C3_AssetNames ==
  /\ \A i \in 1..Len(BuildDeck) :
       /\ BuildDeck[i].fileName = BuildDeck[i].value \o BuildDeck[i].suitCode \o ".png"
       /\ BuildDeck[i].fileName \in PatternNames
       /\ BuildDeck[i].value \in PatternRanks
       /\ BuildDeck[i].suitCode \in PatternSuits
  /\ \A i, k \in 1..Len(BuildDeck) :
       Pair(BuildDeck[i]) = Pair(BuildDeck[k]) => BuildDeck[i].fileName = BuildDeck[k].fileName
  /\ \A j \in 1..4 :
       src[j] # "" => \E name \in PatternNames : src[j] = BasePath(theme) \o name

\* A slot shows the two of hearts of the first version.
C3_Witness == rounds > 0 /\ \E j \in 1..4 : src[j] = "assets/pictures/2H.png"

\* The (card, slot) placements the shuffle and the slice can produce.
ProducibleAt == {<<Slice(d)[slot], slot>> : d \in ShuffledDecks, slot \in 1..SliceLen}

C5_RoundStateMachine ==
  /\ Idle
  /\ [](Idle # RoundActive)
  /\ [][RoundActive']_vars
  /\ [](Idle => ENABLED onload /\ ~ENABLED click)
  /\ [](RoundActive => ENABLED click /\ ~ENABLED onload)
  /\ [](ENABLED Next)

\* A click has moved the page from round active to round active.
C5_Witness == RoundActive /\ rounds = MaxRounds /\ loaded

\* C6: between events the 4 slots show cards of one single round, the
\* latest: each slot holds the path of one of its selected cards, and the 4
\* slots are pairwise different.
C6_OneRoundOnDisplay ==
  rounds > 0 =>
    /\ \A j \in 1..4 : \E i \in 1..Len(Selected) : src[j] = AssetPath(theme, Selected[i])
    /\ \A j, k \in 1..4 : j # k => src[j] # src[k]

\* After a second round the slots show another selection than the canonical
\* first four cards, all of them from the latest deck.
C6_Witness ==
  /\ rounds = MaxRounds
  /\ \A j \in 1..4 : src[j] = AssetPath(theme, deck[j])
  /\ \E j \in 1..4 : deck[j] # FreshDeck[j]

\* C7: no handler ends in an error, and a call of newGame leaves all 4
\* slots assigned: never none or only some of them.
C7_NoErrorOutcome ==
  /\ err = "none"
  /\ loaded => rounds > 0
  /\ rounds > 0 => \A j \in 1..4 : src[j] # "" /\ status[j] # "none"

\* Two rounds have run, both to their end.
C7_Witness ==
  /\ rounds = MaxRounds
  /\ err = "none"
  /\ \A j \in 1..4 : src[j] # ""

\* C8: the constructed deck has exactly 52 cards and holds each pair of
\* CARD_VALUES x CARD_SUITS exactly once; the shuffled deck of a round has
\* the cards of the deck it was made from, each exactly once.
C8_DeckIsCrossProduct ==
  /\ Len(BuildDeck) = 52
  /\ \A v \in 1..Len(CARD_VALUES) : \A k \in 1..Len(CARD_SUITS) :
       Cardinality({i \in 1..Len(BuildDeck) :
                      Pair(BuildDeck[i]) = <<CARD_VALUES[v], CARD_SUITS[k][2]>>}) = 1
  /\ rounds > 0 =>
       /\ Len(deck) = Len(FreshDeck)
       /\ \A i \in 1..Len(FreshDeck) :
            Cardinality({k \in 1..Len(deck) : deck[k] = FreshDeck[i]}) = 1

\* The sort found a descending run of two and reversed it.
C8_Witness ==
  /\ rounds > 0
  /\ deck[1] = FreshDeck[2]
  /\ deck[2] = FreshDeck[1]

C10_LoadFailureIsLocal ==
  [][\A j \in 1..4 :
       (status[j] = "loading" /\ status'[j] = "broken") =>
         /\ src' = src
         /\ deck' = deck
         /\ rounds' = rounds
         /\ err' = err
         /\ \A k \in 1..4 : k # j => status'[k] = status[k]]_vars

\* One slot's image failed while another one loaded, and all 4 slots keep
\* their paths.
C10_Witness ==
  /\ \E j, k \in 1..4 : status[j] = "broken" /\ status[k] = "loaded"
  /\ \A j \in 1..4 : src[j] # ""

====
